---- MODULE Spec2Model ----
(***************************************************************************)
(* Model of pdf2sents/pipeline.py: PipelineStepConfig, PipelineConfig and  *)
(* Pipeline (construction of the seven sub-processors, and run()).         *)
(*                                                                         *)
(* Two specifications share the variables:                                 *)
(*   SpecInit  Pipeline.__init__ applied to two PipelineConfigs that       *)
(*             differ in exactly one stage;                                *)
(*   Spec      calls of Pipeline.run / __call__ on constructed pipelines.  *)
(*                                                                         *)
(* The sub-processors, springs (sp.init.now), cached_path, torch and the   *)
(* mmda Document are outside pipeline.py.  A call into them is modelled by *)
(* its possible outcomes: it returns, or it raises one of Errors, and it   *)
(* may emit one warning.  What sp.init.now does with a step config whose   *)
(* _target_ is MISSING is not decided by pipeline.py; the model keeps it   *)
(* as an unknown but fixed policy.                                         *)
(***************************************************************************)
EXTENDS Integers, Sequences, FiniteSets, TLC

\* ------------------------------------------------------------------ bounds
MaxRuns == 2          \* calls of run() explored
MaxOverrides == 1     \* stages in which the first config departs from the defaults

\* ------------------------------------------------------- PipelineStepConfig
MISSING == "MISSING"

\* the seven stages, in the order __init__ builds them
Stages == <<"parser", "rasterizer", "layout", "words", "sents",
            "blocks_type", "sents_type">>
StageSet == {Stages[i] : i \in 1..Len(Stages)}

Pipes == {1, 2}

\* default _target_ of each field of PipelineConfig
DefaultTarget(s) ==
    CASE s = "parser"      -> "PDFPlumberParser"
      [] s = "rasterizer"  -> "PDF2ImageRasterizer"
      [] s = "layout"      -> "LayoutParserPredictor.from_pretrained"
      [] s = "sents"       -> "PysbdSentenceBoundaryPredictor"
      [] s = "words"       -> "ExtendedDictionaryWordPredictor"
      [] s = "blocks_type" -> "TypedBlockPredictor"
      [] s = "sents_type"  -> "TypedSentencesPredictor"

\* default extra parameters of each field of PipelineConfig
DefaultParams(s) ==
    CASE s = "layout" -> "config_path=lp://efficientdet/PubLayNet"
      [] s = "words"  -> "dictionary_file_path=words.txt"
      [] OTHER        -> "none"

\* PipelineConfig()
PipelineConfig == [s \in StageSet |->
                     [target |-> DefaultTarget(s), params |-> DefaultParams(s)]]

\* the values a PipelineStepConfig (a flexy dataclass) is drawn from
PipelineStepConfig(s) ==
    [target : {DefaultTarget(s), "CustomImpl", MISSING},
     params : {DefaultParams(s), "custom_params"}]

\* configs that depart from PipelineConfig() in at most k stages
RECURSIVE Configs(_)
Configs(k) ==
    IF k = 0 THEN {PipelineConfig}
    ELSE Configs(k - 1) \cup
         {[c EXCEPT ![s] = v] : c \in Configs(k - 1),
                                 <<s, v>> \in {<<t, w>> \in
                                     StageSet \X UNION {PipelineStepConfig(u) : u \in StageSet} :
                                     w \in PipelineStepConfig(t)}}

\* the configs that differ from c in exactly one stage
OneStageChanged(c) ==
    {[c EXCEPT ![s] = v] : <<s, v>> \in {<<t, w>> \in
         StageSet \X UNION {PipelineStepConfig(u) : u \in StageSet} :
         w \in PipelineStepConfig(t) /\ w # c[t]}}

\* ----------------------------------------------------------- Pipeline.__init__
\* second argument of each sp.init.now call
TypeArg(s) ==
    CASE s = "parser"      -> "PDFPlumberParser"
      [] s = "rasterizer"  -> "PDF2ImageRasterizer"
      [] s = "layout"      -> "LayoutParserPredictor"
      [] s = "words"       -> "ExtendedDictionaryWordPredictor"
      [] s = "sents"       -> "PysbdSentenceBoundaryPredictor"
      [] s = "blocks_type" -> "TypedBlockPredictor"
      [] s = "sents_type"  -> "TypedSentencesPredictor"

\* a copy-and-paste slip: the word predictor built from config.layout
ConfigEntryShared(s) == IF s = "words" THEN "layout" ELSE s

\* the attribute of config that the sp.init.now call for stage s receives
ConfigEntry(s) == s

\* outcomes of sp.init.now on a config whose _target_ is MISSING
Policies == {"default", "raise", "config"}

Unset == [kind |-> "unset", impl |-> "none", params |-> "none"]

\* sp.init.now(step, type): an object of the named implementation built with
\* the step's parameters; for a MISSING _target_ the outcome is the policy's
init_now(step, type, pol) ==
    IF step.target # MISSING
    THEN [kind |-> "object", impl |-> step.target, params |-> step.params]
    ELSE CASE pol = "default" -> [kind |-> "object", impl |-> type, params |-> step.params]
           [] pol = "raise"   -> [kind |-> "raise", impl |-> "none", params |-> "none"]
           [] pol = "config"  -> [kind |-> "config", impl |-> MISSING, params |-> step.params]

\* Pipeline(config) when no sp.init.now call raises
Pipeline(config, pol) ==
    [s \in StageSet |-> init_now(config[ConfigEntry(s)], TypeArg(s), pol)]

Constructible(config, pol) ==
    \A s \in StageSet : Pipeline(config, pol)[s].kind # "raise"

\* ------------------------------------------------------------------ warnings
Warnings == {[msg |-> "named_tensors", category |-> "UserWarning"],
             [msg |-> "floor_divide",  category |-> "UserWarning"],
             [msg |-> "other",         category |-> "UserWarning"],
             [msg |-> "deprecated",    category |-> "DeprecationWarning"]}
NoWarning == [msg |-> "none", category |-> "none"]

\* issubclass(c, d) among the warning categories
IsSubclass(c, d) == c = d \/ d = "Warning"

\* the filter entry of warnings.simplefilter(action): any message, any Warning
SimpleEntry(action) == [action |-> action, message |-> "", category |-> "Warning"]

\* filter lists the caller may have installed before calling run
AmbientFilters ==
    {<< >>,
     <<[action |-> "ignore", message |-> "", category |-> "DeprecationWarning"]>>,
     <<SimpleEntry("ignore")>>,
     <<[action |-> "always", message |-> "", category |-> "UserWarning"],
       SimpleEntry("ignore")>>}

Matches(f, w) ==
    /\ f.message = "" \/ f.message = w.msg
    /\ IsSubclass(w.category, f.category)

\* warnings.warn(w) under the filter list fs: the first matching entry
\* decides; with no match the default action shows the warning
Delivered(fs, w) ==
    LET hits == {i \in 1..Len(fs) : Matches(fs[i], w)}
    IN  IF hits = {} THEN TRUE
        ELSE LET i == CHOOSE j \in hits : \A k \in hits : j <= k
             IN  fs[i].action # "ignore"

\* the sequence s without its first occurrence of x
RECURSIVE Remove(_, _)
Remove(s, x) ==
    IF s = << >> THEN << >>
    ELSE IF Head(s) = x THEN Tail(s)
    ELSE <<Head(s)>> \o Remove(Tail(s), x)

\* warnings.simplefilter(action): the entry is removed if present and put
\* at the front
simplefilter(fs, action) ==
    <<SimpleEntry(action)>> \o Remove(fs, SimpleEntry(action))

\* ----------------------------------------------------------------- Document
NoDoc == [id |-> 0, layers |-> << >>]

Range(s) == {s[i] : i \in 1..Len(s)}

\* an annotate that replaces what is there
annotateReplacing(d, layer) == [d EXCEPT !.layers = <<layer>>]

\* doc.annotate(layer=...) / doc.annotate_images(...): one more layer
annotate(d, layer) == [d EXCEPT !.layers = Append(d.layers, layer)]

\* -------------------------------------------------------------------- state
VARIABLES
    policy,        \* what sp.init.now does with a MISSING _target_ (fixed)
    cfgs,          \* cfgs[p]: the PipelineConfig handed to Pipeline number p
    pipes,         \* pipes[p][s]: the sub-processor field of stage s of Pipeline p
    ipc,           \* ipc[p]: index in Stages that __init__ of p builds next;
                   \*         Len(Stages)+1 when it has returned, 0 when it raised
    pc,            \* position of run(): "idle" or a point of Flow / "unwind" / "raise"
    cur,           \* the Pipeline run() was called on
    runs,          \* calls of run() so far
    doc,           \* the local doc of run(): [id, layers]
    nextId,        \* identity of the next Document the parser creates
    prevDocs,      \* identities of the Documents of finished calls
    filters,       \* warnings.filters
    savedFilters,  \* catch_warnings()._filters, a stack of at most one entry
    grad,          \* torch.is_grad_enabled()
    savedGrad,     \* no_grad().prev, a stack of at most one entry
    entryFilters,  \* warnings.filters when run() was called
    entryGrad,     \* torch.is_grad_enabled() when run() was called
    exc,           \* the exception in flight
    raised,        \* the collaborator call of this run that raised, and its error
    outcome,       \* what the caller of run() got
    calls,         \* sub-processor invocations of this run, with the layers
                   \* the document carried at the invocation
    lastWarn       \* the warning of the latest collaborator call and its fate

vars == <<policy, cfgs, pipes, ipc, pc, cur, runs, doc, nextId, prevDocs,
          filters, savedFilters, grad, savedGrad, entryFilters, entryGrad,
          exc, raised, outcome, calls, lastWarn>>

initVars == <<policy, cfgs, pipes, ipc>>
runVars == <<pc, cur, runs, doc, nextId, prevDocs, filters, savedFilters,
             grad, savedGrad, entryFilters, entryGrad, exc, raised, outcome,
             calls, lastWarn>>

Errors == {"E1", "E2"}
NoError == "none"
NotRaised == [stage |-> "none", err |-> NoError]
NoOutcome == [kind |-> "none", err |-> NoError, doc |-> NoDoc]
NotWarned == [stage |-> "none", w |-> NoWarning, delivered |-> FALSE]

Done == Len(Stages) + 1
Failed == 0

\* run() has not been called
RunIdle ==
    /\ pc = "idle" /\ cur = 0 /\ runs = 0
    /\ doc = NoDoc /\ nextId = 1 /\ prevDocs = {}
    /\ savedFilters = << >> /\ savedGrad = << >>
    /\ entryFilters = filters /\ entryGrad = grad
    /\ exc = NoError /\ raised = NotRaised /\ outcome = NoOutcome
    /\ calls = << >> /\ lastWarn = NotWarned

\* ------------------------------------------------- SpecInit: Pipeline.__init__
InitConstruct ==
    /\ policy \in Policies
    /\ cfgs \in UNION {{<<a, b>> : b \in OneStageChanged(a)} : a \in Configs(MaxOverrides)}
    /\ pipes = [p \in Pipes |-> [s \in StageSet |-> Unset]]
    /\ ipc = [p \in Pipes |-> 1]
    /\ filters = << >> /\ grad = TRUE
    /\ RunIdle

\* one statement self.<field> = sp.init.now(config.<entry>, <type>) of
\* Pipeline.__init__; the two constructor calls follow one another
Construct(p) ==
    /\ ipc[p] \in 1..Len(Stages)
    /\ p = 1 \/ ipc[1] \in {Done, Failed}
    /\ LET s == Stages[ipc[p]]
           r == init_now(cfgs[p][ConfigEntry(s)], TypeArg(s), policy)
       IN  IF r.kind = "raise"
           THEN /\ ipc' = [ipc EXCEPT ![p] = Failed]
                /\ pipes' = pipes
           ELSE /\ ipc' = [ipc EXCEPT ![p] = @ + 1]
                /\ pipes' = [pipes EXCEPT ![p][s] = r]
    /\ UNCHANGED <<policy, cfgs>>
    /\ UNCHANGED runVars

NextConstruct == \E p \in Pipes : Construct(p)

SpecInit == InitConstruct /\ [][NextConstruct]_vars

\* ------------------------------------------------------- Spec: Pipeline.run
\* the word predictor hoisted above the layout step: it runs before any layer is attached
FlowWordsEarly ==
    <<"cached_path", "parse", "rasterize", "words_predict", "annotate_images",
      "enter_with", "simplefilter", "layout_predict", "annotate_blocks",
      "exit_with", "annotate_words", "sents_predict", "annotate_sents",
      "blocks_type_predict", "annotate_typed_blocks",
      "sents_type_predict", "annotate_typed_sents", "return">>

\* the statements of run(), in program order
Flow ==
    <<"cached_path", "parse", "rasterize", "annotate_images",
      "enter_with", "simplefilter", "layout_predict", "annotate_blocks",
      "exit_with", "words_predict", "annotate_words",
      "sents_predict", "annotate_sents",
      "blocks_type_predict", "annotate_typed_blocks",
      "sents_type_predict", "annotate_typed_sents", "return">>

\* the statement after p
After(p) == Flow[(CHOOSE i \in 1..Len(Flow) : Flow[i] = p) + 1]

\* the body of the with statement: an exception raised there leaves
\* through the two context managers
InWith(p) == p \in {"simplefilter", "layout_predict", "annotate_blocks"}

PredictPoints == {"layout_predict", "words_predict", "sents_predict",
                  "blocks_type_predict", "sents_type_predict"}
AnnotatePoints == {"annotate_images", "annotate_blocks", "annotate_words",
                   "annotate_sents", "annotate_typed_blocks",
                   "annotate_typed_sents"}

\* the sub-processor a statement invokes
StageAt(p) ==
    CASE p = "parse"               -> "parser"
      [] p = "rasterize"           -> "rasterizer"
      [] p = "layout_predict"      -> "layout"
      [] p = "words_predict"       -> "words"
      [] p = "sents_predict"       -> "sents"
      [] p = "blocks_type_predict" -> "blocks_type"
      [] p = "sents_type_predict"  -> "sents_type"

\* words and sents attached under each other's name
LayerAtSwapped(p) ==
    CASE p = "annotate_images"       -> "images"
      [] p = "annotate_blocks"       -> "blocks"
      [] p = "annotate_words"        -> "sents"
      [] p = "annotate_sents"        -> "words"
      [] p = "annotate_typed_blocks" -> "typed_blocks"
      [] p = "annotate_typed_sents"  -> "typed_sents"

\* the layer an annotate statement attaches
LayerAt(p) ==
    CASE p = "annotate_images"       -> "images"
      [] p = "annotate_blocks"       -> "blocks"
      [] p = "annotate_words"        -> "words"
      [] p = "annotate_sents"        -> "sents"
      [] p = "annotate_typed_blocks" -> "typed_blocks"
      [] p = "annotate_typed_sents"  -> "typed_sents"

\* pipelines run() is exercised on: the default one and one with another
\* layout model
RunConfigs ==
    {<<PipelineConfig,
       [PipelineConfig EXCEPT !["layout"] =
            [target |-> "CustomImpl", params |-> "custom_params"]]>>}

Init ==
    /\ policy \in Policies
    /\ cfgs \in RunConfigs
    /\ \A p \in Pipes : Constructible(cfgs[p], policy)
    /\ pipes = [p \in Pipes |-> Pipeline(cfgs[p], policy)]
    /\ ipc = [p \in Pipes |-> Done]
    /\ filters \in AmbientFilters
    /\ grad \in BOOLEAN
    /\ RunIdle

\* run(input_path) / __call__(input_path) is entered
Call(p) ==
    /\ pc = "idle"
    /\ runs < MaxRuns
    /\ ipc[p] = Done
    /\ pc' = Flow[1]
    /\ cur' = p
    /\ runs' = runs + 1
    /\ doc' = NoDoc
    /\ entryFilters' = filters
    /\ entryGrad' = grad
    /\ exc' = NoError
    /\ raised' = NotRaised
    /\ outcome' = NoOutcome
    /\ calls' = << >>
    /\ lastWarn' = NotWarned
    /\ UNCHANGED <<nextId, prevDocs, filters, savedFilters, grad, savedGrad>>
    /\ UNCHANGED initVars

\* the statement at pc raises e
Throw(e) ==
    /\ raised' = [stage |-> pc, err |-> e]
    /\ exc' = e
    /\ pc' = IF InWith(pc) THEN "unwind" ELSE "raise"

\* sub-processor s is invoked and emits w (or nothing)
Invoke(s, w) ==
    /\ calls' = Append(calls, [stage |-> s, layers |-> Range(doc.layers)])
    /\ lastWarn' = [stage |-> s, w |-> w,
                    delivered |-> w # NoWarning /\ Delivered(filters, w)]

\* src_path = Path(cached_path(input_path))
CachedPath ==
    /\ pc = "cached_path"
    /\ \/ pc' = After(pc) /\ UNCHANGED <<exc, raised>>
       \/ \E e \in Errors : Throw(e)
    /\ UNCHANGED <<cur, runs, doc, nextId, prevDocs, filters, savedFilters,
                   grad, savedGrad, entryFilters, entryGrad, outcome, calls,
                   lastWarn>>
    /\ UNCHANGED initVars

\* a parser that hands out the Document of an earlier call again
ParseReused ==
    /\ pc = "parse"
    /\ \E w \in Warnings \cup {NoWarning} : Invoke("parser", w)
    /\ \/ /\ doc' = [id |-> IF prevDocs = {} THEN nextId
                            ELSE CHOOSE i \in prevDocs : TRUE,
                     layers |-> << >>]
          /\ nextId' = nextId + 1
          /\ pc' = After(pc)
          /\ UNCHANGED <<exc, raised>>
       \/ /\ \E e \in Errors : Throw(e)
          /\ UNCHANGED <<doc, nextId>>
    /\ UNCHANGED <<cur, runs, prevDocs, filters, savedFilters, grad, savedGrad,
                   entryFilters, entryGrad, outcome>>
    /\ UNCHANGED initVars

\* doc = self.parser.parse(str(src_path))
Parse ==
    /\ pc = "parse"
    /\ \E w \in Warnings \cup {NoWarning} : Invoke("parser", w)
    /\ \/ /\ doc' = [id |-> nextId, layers |-> << >>]
          /\ nextId' = nextId + 1
          /\ pc' = After(pc)
          /\ UNCHANGED <<exc, raised>>
       \/ /\ \E e \in Errors : Throw(e)
          /\ UNCHANGED <<doc, nextId>>
    /\ UNCHANGED <<cur, runs, prevDocs, filters, savedFilters, grad, savedGrad,
                   entryFilters, entryGrad, outcome>>
    /\ UNCHANGED initVars

\* images = self.rasterizer.rasterize(str(src_path), dpi=72)
Rasterize ==
    /\ pc = "rasterize"
    /\ \E w \in Warnings \cup {NoWarning} : Invoke("rasterizer", w)
    /\ \/ pc' = After(pc) /\ UNCHANGED <<exc, raised>>
       \/ \E e \in Errors : Throw(e)
    /\ UNCHANGED <<cur, runs, doc, nextId, prevDocs, filters, savedFilters,
                   grad, savedGrad, entryFilters, entryGrad, outcome>>
    /\ UNCHANGED initVars

\* x = self.<stage>_pred.predict(doc)
Predict ==
    /\ pc \in PredictPoints
    /\ \E w \in Warnings \cup {NoWarning} : Invoke(StageAt(pc), w)
    /\ \/ pc' = After(pc) /\ UNCHANGED <<exc, raised>>
       \/ \E e \in Errors : Throw(e)
    /\ UNCHANGED <<cur, runs, doc, nextId, prevDocs, filters, savedFilters,
                   grad, savedGrad, entryFilters, entryGrad, outcome>>
    /\ UNCHANGED initVars

\* doc.annotate_images(images) / doc.annotate(<layer>=x)
Annotate ==
    /\ pc \in AnnotatePoints
    /\ \/ /\ doc' = annotate(doc, LayerAt(pc))
          /\ pc' = After(pc)
          /\ UNCHANGED <<exc, raised>>
       \/ /\ \E e \in Errors : Throw(e)
          /\ doc' = doc
    /\ UNCHANGED <<cur, runs, nextId, prevDocs, filters, savedFilters, grad,
                   savedGrad, entryFilters, entryGrad, outcome, calls, lastWarn>>
    /\ UNCHANGED initVars

\* with torch.no_grad(), warnings.catch_warnings(): both __enter__
EnterWith ==
    /\ pc = "enter_with"
    /\ savedGrad' = <<grad>>
    /\ grad' = FALSE
    /\ savedFilters' = <<filters>>
    /\ filters' = filters
    /\ pc' = After(pc)
    /\ UNCHANGED <<cur, runs, doc, nextId, prevDocs, entryFilters, entryGrad,
                   exc, raised, outcome, calls, lastWarn>>
    /\ UNCHANGED initVars

\* warnings.simplefilter("ignore")
SimpleFilter ==
    /\ pc = "simplefilter"
    /\ filters' = simplefilter(filters, "ignore")
    /\ pc' = After(pc)
    /\ UNCHANGED <<cur, runs, doc, nextId, prevDocs, savedFilters, grad,
                   savedGrad, entryFilters, entryGrad, exc, raised, outcome,
                   calls, lastWarn>>
    /\ UNCHANGED initVars

\* both __exit__ of the with statement
Restore ==
    /\ filters' = savedFilters[1]
    /\ savedFilters' = << >>
    /\ grad' = savedGrad[1]
    /\ savedGrad' = << >>

\* the with statement is left at its end
ExitWith ==
    /\ pc = "exit_with"
    /\ Restore
    /\ pc' = After(pc)
    /\ UNCHANGED <<cur, runs, doc, nextId, prevDocs, entryFilters, entryGrad,
                   exc, raised, outcome, calls, lastWarn>>
    /\ UNCHANGED initVars

\* an exception path that skips the context managers
UnwindLeaking ==
    /\ pc = "unwind"
    /\ pc' = "raise"
    /\ UNCHANGED <<cur, runs, doc, nextId, prevDocs, filters, savedFilters,
                   grad, savedGrad, entryFilters, entryGrad, exc, raised,
                   outcome, calls, lastWarn>>
    /\ UNCHANGED initVars

\* the with statement is left by an exception: both __exit__ run and
\* neither swallows it
Unwind ==
    /\ pc = "unwind"
    /\ Restore
    /\ pc' = "raise"
    /\ UNCHANGED <<cur, runs, doc, nextId, prevDocs, entryFilters, entryGrad,
                   exc, raised, outcome, calls, lastWarn>>
    /\ UNCHANGED initVars

\* return doc
Return ==
    /\ pc = "return"
    /\ outcome' = [kind |-> "return", err |-> NoError, doc |-> doc]
    /\ prevDocs' = prevDocs \cup {doc.id}
    /\ pc' = "idle"
    /\ UNCHANGED <<cur, runs, doc, nextId, filters, savedFilters, grad,
                   savedGrad, entryFilters, entryGrad, exc, raised, calls,
                   lastWarn>>
    /\ UNCHANGED initVars

\* a handler that swallows the error and hands back what it has
RaiseReturningPartial ==
    /\ pc = "raise"
    /\ outcome' = [kind |-> "return", err |-> NoError, doc |-> doc]
    /\ prevDocs' = prevDocs \cup ({doc.id} \ {NoDoc.id})
    /\ exc' = NoError
    /\ pc' = "idle"
    /\ UNCHANGED <<cur, runs, doc, nextId, filters, savedFilters, grad,
                   savedGrad, entryFilters, entryGrad, raised, calls, lastWarn>>
    /\ UNCHANGED initVars

\* a handler that re-raises under another error
RaiseWrapped ==
    /\ pc = "raise"
    /\ outcome' = [kind |-> "raise", err |-> "PipelineError", doc |-> NoDoc]
    /\ prevDocs' = prevDocs \cup ({doc.id} \ {NoDoc.id})
    /\ exc' = NoError
    /\ pc' = "idle"
    /\ UNCHANGED <<cur, runs, doc, nextId, filters, savedFilters, grad,
                   savedGrad, entryFilters, entryGrad, raised, calls, lastWarn>>
    /\ UNCHANGED initVars

\* the exception leaves run(): there is no try/except in run()
Raise ==
    /\ pc = "raise"
    /\ outcome' = [kind |-> "raise", err |-> exc, doc |-> NoDoc]
    /\ prevDocs' = prevDocs \cup ({doc.id} \ {NoDoc.id})
    /\ exc' = NoError
    /\ pc' = "idle"
    /\ UNCHANGED <<cur, runs, doc, nextId, filters, savedFilters, grad,
                   savedGrad, entryFilters, entryGrad, raised, calls, lastWarn>>
    /\ UNCHANGED initVars

Next ==
    \/ \E p \in Pipes : Call(p)
    \/ CachedPath
    \/ Parse
    \/ Rasterize
    \/ Predict
    \/ Annotate
    \/ EnterWith
    \/ SimpleFilter
    \/ ExitWith
    \/ Unwind
    \/ Return
    \/ Raise

Spec == Init /\ [][Next]_vars

\* ==================================================================== claims
LayerOrder == <<"images", "blocks", "words", "sents", "typed_blocks", "typed_sents">>

IsPrefix(s, t) == Len(s) <= Len(t) /\ s = SubSeq(t, 1, Len(s))

\* C1: the layers of the document of a run are attached in the order images,
\* blocks, words, sents, typed_blocks, typed_sents, each once, and a Document
\* that run returns carries all six.
C1_LayerOrder ==
    /\ IsPrefix(doc.layers, LayerOrder)
    /\ outcome.kind = "return" => outcome.doc.layers = LayerOrder

C1_Witness ==
    /\ pc = "idle"
    /\ outcome.kind = "return"
    /\ Len(outcome.doc.layers) = 6

\* the layers a stage's predictor reads
Requires(s) ==
    CASE s = "layout"      -> {"images"}
      [] s = "words"       -> {"blocks"}
      [] s = "sents"       -> {"words"}
      [] s = "blocks_type" -> {"blocks", "sents"}
      [] s = "sents_type"  -> {"blocks", "sents"}
      [] OTHER             -> {}

\* C2: whenever a predictor is invoked on the document, the layers of the
\* stages it depends on are already attached (images before layout, blocks
\* before words, words before sents, sents and blocks before the two type
\* classifiers).
C2_DependencyOrder ==
    /\ \A i \in 1..Len(calls) : Requires(calls[i].stage) \subseteq calls[i].layers
    /\ pc \in PredictPoints => Requires(StageAt(pc)) \subseteq Range(doc.layers)

C2_Witness ==
    /\ Len(calls) = 7
    /\ calls[7].stage = "sents_type"
    /\ calls[7].layers = {"images", "blocks", "words", "sents", "typed_blocks"}

\* C3: once a statement of run has failed, the run does not return a
\* Document: it ends by raising and the caller receives no Document, although
\* a partially annotated one may exist.
C3_NoPartialDocument ==
    /\ raised # NotRaised => outcome.kind # "return"
    /\ (raised # NotRaised /\ pc = "idle") =>
           (outcome.kind = "raise" /\ outcome.doc = NoDoc)

C3_Witness ==
    /\ pc = "idle"
    /\ raised.stage = "sents_predict"
    /\ doc.layers = <<"images", "blocks", "words">>
    /\ outcome.kind = "raise"

C4_Inv ==
    /\ \A i, j \in 1..Len(calls) : calls[i].stage = calls[j].stage => i = j
    /\ outcome.kind = "raise" => (raised # NotRaised /\ outcome.err = raised.err)

C4_Step ==
    (raised # NotRaised /\ runs' = runs) => (calls' = calls /\ doc' = doc)

\* C4: run is fail-fast without retries: within a run each sub-processor is
\* invoked at most once, after a failure no further sub-processor is invoked
\* and no further layer is attached, and the error the caller receives is the
\* error the failing call raised.
C4_FailFast == []C4_Inv /\ [][C4_Step]_vars

C4_Witness ==
    /\ pc = "idle"
    /\ raised = [stage |-> "layout_predict", err |-> "E2"]
    /\ outcome.kind = "raise"
    /\ outcome.err = "E2"

StageIndex(s) == CHOOSE i \in 1..Len(Stages) : Stages[i] = s

\* C5: for two configs that differ in exactly one stage, every other stage
\* that both constructors have built holds the same implementation and
\* parameters.
C5_StageIndependence ==
    \A s \in StageSet :
        (/\ ipc[1] > StageIndex(s)
         /\ ipc[2] > StageIndex(s)
         /\ cfgs[1][s] = cfgs[2][s]) => pipes[1][s] = pipes[2][s]

C5_Witness ==
    /\ ipc[1] = Done /\ ipc[2] = Done
    /\ cfgs[1]["layout"] # cfgs[2]["layout"]
    /\ pipes[1]["layout"] # pipes[2]["layout"]
    /\ pipes[1]["words"] = pipes[2]["words"]

\* positions at which the with statement's filter list is in force
InsideWith == {"simplefilter", "layout_predict", "annotate_blocks",
               "exit_with", "unwind"}

\* C7: outside the with statement of the layout step the warning filters are
\* those run was called with, a warning of any other stage meets exactly the
\* caller's filters, and when run has ended (returned or raised, a failure of
\* the layout step included) the filters are the caller's again.
C7_SuppressionConfined ==
    /\ pc \notin InsideWith => filters = entryFilters
    /\ (lastWarn.stage \notin {"none", "layout"} /\ lastWarn.w # NoWarning) =>
           lastWarn.delivered = Delivered(entryFilters, lastWarn.w)

C7_Witness ==
    /\ pc = "idle"
    /\ raised.stage = "layout_predict"
    /\ lastWarn.stage = "layout"
    /\ ~lastWarn.delivered
    /\ filters = << >>

\* C8: during the layout step only the named-tensors and floor_divide
\* warnings are suppressed; any other warning the layout step emits meets the
\* caller's filters and is delivered as it would be outside run.
C8_OnlyNamedSuppressed ==
    (/\ lastWarn.stage = "layout"
     /\ lastWarn.w # NoWarning
     /\ lastWarn.w.msg \notin {"named_tensors", "floor_divide"}) =>
        lastWarn.delivered = Delivered(entryFilters, lastWarn.w)

C9_Step ==
    doc'.id = doc.id =>
        \/ doc'.layers = doc.layers
        \/ /\ Len(doc'.layers) = Len(doc.layers) + 1
           /\ SubSeq(doc'.layers, 1, Len(doc.layers)) = doc.layers
           /\ doc'.layers[Len(doc'.layers)] \notin Range(doc.layers)

\* C9: every step of run leaves the layers of the document as they are or
\* adds exactly one layer that was not there; none is removed or re-attached.
C9_LayersOnlyGrow == [][C9_Step]_vars

C9_Witness ==
    /\ pc = "return"
    /\ Len(doc.layers) = 6

C10_Inv ==
    /\ \A p \in Pipes : ipc[p] = Done
    /\ (pc # "idle" /\ doc # NoDoc) => doc.id \notin prevDocs

\* C10: no call of run, successful or failed, changes a sub-processor field
\* of a pipeline, and the document of each call is one the parser created in
\* that call, never the document of an earlier call.
C10_FieldsFixedDocFresh == []C10_Inv /\ [][pipes' = pipes /\ ipc' = ipc]_vars

C10_Witness ==
    /\ runs >= 2
    /\ pc = "annotate_images"
    /\ prevDocs # {}
    /\ doc.id \notin prevDocs

====
